---- MODULE Spec2Model ----
(***************************************************************************)
(* LocalLens: the report lifecycle (backend/models/Report.js,              *)
(* backend/routes/reports.js, backend/routes/admin.js), the listings,      *)
(* login and the token layer (backend/middleware/auth.js,                  *)
(* backend/routes/auth.js), and the token refresh of the browser's API     *)
(* service (frontend/src/services/api.js).                                 *)
(*                                                                         *)
(* Abstractions: a date is a natural number read from the clock `now`      *)
(* (0 is "no date"); a status-history entry keeps its status and its       *)
(* changedBy, an admin comment keeps its author; a JWT is the record of    *)
(* its payload, the key that signed it and whether it is past its expiry;  *)
(* a title or description is its length, its surrounding white space and   *)
(* a word it contains.  The rate limiters of server.js are left out.       *)
(***************************************************************************)
EXTENDS Integers, Sequences, FiniteSets, TLC

VARIABLES
    env,        \* process.env: JWT_SECRET, JWT_REFRESH_SECRET ("" = unset)
    users,      \* the User collection: id -> [exists, isActive, role, adminArea]
    reports,    \* the Report collection: id -> document or NoReport
    used,       \* the report ids generated so far (an ObjectId is never reused)
    now,        \* the clock read by new Date() / Date.now
    inflight,   \* requests suspended at an await between findById and save
    resp,       \* the response sent to the last request
    client      \* the browser's API service: services/api.js module state

vars == <<env, users, reports, used, now, inflight, resp, client>>

-----------------------------------------------------------------------------
(* Bounds *)

MaxTime == 4        \* writes (clock ticks) in one run
MaxInflight == 2    \* concurrently suspended requests

Slots == 1..MaxInflight

\* The ids a created report can get, and an id that never names a report.
ReportIds == {"r1", "r2"}
MissingId == "r0"

-----------------------------------------------------------------------------
(* Users and text *)

UserIds == {"u1", "u2", "a1", "d1"}
NoUser == "none"

\* A string is a sequence of characters; toLowerCase maps the capitals used.
Lower(c) == CASE c = "N" -> "n" [] c = "S" -> "s" [] OTHER -> c

toLowerCase(s) == [i \in 1..Len(s) |-> Lower(s[i])]

includes(s, sub) ==
    \E i \in 0..(Len(s) - Len(sub)) : SubSeq(s, i + 1, i + Len(sub)) = sub

\* A text (title, description) keeps its length without the surrounding
\* whitespace, the length of that whitespace, and a word it contains.
Text(n, pad, word) == [len |-> n, pad |-> pad, word |-> word]

NoText == Text(0, 0, <<>>)

Length(t) == t.len + t.pad

\* String.prototype.trim / the validator's and the schema's trim
trim(t) == [t EXCEPT !.pad = 0]

\* new RegExp(term, 'i').test(text), for a term of plain letters
regexTest(term, s) == includes(toLowerCase(s), toLowerCase(term))

North == <<"N", "o">>
South == <<"S", "o">>
NoArea == <<>>

\* The stored form of a password: a salted one-way hash, equal for equal
\* passwords of one account and never the plaintext.
Hash(password) == <<"salted", password>>

EmailOf(u) ==
    CASE u = "u1" -> "u1@x.io" [] u = "u2" -> "u2@x.io"
      [] u = "a1" -> "a1@x.io" [] OTHER -> "d1@x.io"

PasswordOf(u) == IF u = "a1" THEN "Adm1n" ELSE "Passw0rd"

\* u1, u2: active citizens; a1: active admin without an area; d1: a citizen
\* whose account was deactivated.  Nobody has logged in yet.
BaseUsers ==
    [u \in UserIds |->
        [exists |-> TRUE,
         isActive |-> u # "d1",
         role |-> IF u = "a1" THEN "admin" ELSE "user",
         adminArea |-> NoArea,
         email |-> EmailOf(u),
         password |-> Hash(PasswordOf(u)),
         lastLogin |-> 0]]

-----------------------------------------------------------------------------
(* Tokens: backend/middleware/auth.js *)

NoToken == [userId |-> NoUser, type |-> "none", key |-> "", expired |-> FALSE]

\* jwt.sign({ userId }, process.env.JWT_SECRET, ...)
generateToken(userId) ==
    [userId |-> userId, type |-> "none", key |-> env.JWT_SECRET, expired |-> FALSE]

\* process.env.JWT_REFRESH_SECRET || process.env.JWT_SECRET
RefreshSecret ==
    IF env.JWT_REFRESH_SECRET # "" THEN env.JWT_REFRESH_SECRET ELSE env.JWT_SECRET

\* jwt.sign({ userId, type: 'refresh' }, refresh secret, ...)
generateRefreshToken(userId) ==
    [userId |-> userId, type |-> "refresh", key |-> RefreshSecret, expired |-> FALSE]

\* The same token presented after its expiry, and one signed by a foreign key.
Expired(t) == [t EXCEPT !.expired = TRUE]
Forged(t) == [t EXCEPT !.key = "k3"]

\* jwt.verify: the signature is checked before the expiry.
jwtVerify(token, secret) ==
    IF token.key # secret THEN "JsonWebTokenError"
    ELSE IF token.expired THEN "TokenExpiredError"
    ELSE "ok"

Denied(code, error) == [ok |-> FALSE, code |-> code, error |-> error, user |-> NoUser]

\* authenticateToken without the check of user.isActive
authenticateTokenSkipsActive(token) ==
    IF token = NoToken THEN Denied(401, "MISSING_TOKEN")
    ELSE LET v == jwtVerify(token, env.JWT_SECRET) IN
         IF v = "JsonWebTokenError" THEN Denied(401, "INVALID_TOKEN")
         ELSE IF v = "TokenExpiredError" THEN Denied(401, "TOKEN_EXPIRED")
         ELSE IF ~users[token.userId].exists THEN Denied(401, "USER_NOT_FOUND")
         ELSE [ok |-> TRUE, code |-> 200, error |-> "", user |-> token.userId]

authenticateToken(token) ==
    IF token = NoToken THEN Denied(401, "MISSING_TOKEN")
    ELSE LET v == jwtVerify(token, env.JWT_SECRET) IN
         IF v = "JsonWebTokenError" THEN Denied(401, "INVALID_TOKEN")
         ELSE IF v = "TokenExpiredError" THEN Denied(401, "TOKEN_EXPIRED")
         ELSE IF ~users[token.userId].exists THEN Denied(401, "USER_NOT_FOUND")
         ELSE IF ~users[token.userId].isActive THEN Denied(401, "ACCOUNT_DEACTIVATED")
         ELSE [ok |-> TRUE, code |-> 200, error |-> "", user |-> token.userId]

\* requireAdmin letting every authenticated user through
requireAdminAdmitsAll(user) == [ok |-> TRUE, code |-> 200, error |-> "", user |-> user]

requireAdmin(user) ==
    IF users[user].role # "admin" THEN Denied(403, "INSUFFICIENT_PERMISSIONS")
    ELSE [ok |-> TRUE, code |-> 200, error |-> "", user |-> user]

\* router.use(authenticateToken); router.use(requireAdmin)
adminGate(token) ==
    LET a == authenticateToken(token) IN
    IF a.ok THEN requireAdmin(a.user) ELSE a

\* req.user after optionalAuth: every failure continues without a user.
optionalAuth(token) ==
    IF token = NoToken THEN NoUser
    ELSE IF jwtVerify(token, env.JWT_SECRET) # "ok" THEN NoUser
    ELSE IF users[token.userId].exists /\ users[token.userId].isActive
         THEN token.userId
    ELSE NoUser

\* verifyRefreshToken without the check of decoded.type
verifyRefreshTokenAnyType(token) == jwtVerify(token, RefreshSecret)

\* "ok" with the payload, or the error thrown.
verifyRefreshToken(token) ==
    LET v == jwtVerify(token, RefreshSecret) IN
    IF v # "ok" THEN v
    ELSE IF token.type # "refresh" THEN "Error"
    ELSE "ok"

-----------------------------------------------------------------------------
(* Responses and handler outcomes *)

Reply(op, code, error, extra) ==
    [op |-> op, code |-> code, error |-> error] @@ extra

NoResp == Reply("none", 0, "", <<>>)

\* What a handler does: the response it sends, the Report collection and the
\* generated ids it leaves, and whether it wrote to the store.
Out(r, db, ids, w) == [resp |-> r, reports |-> db, used |-> ids, write |-> w]

Refuse(op, code, error) ==
    Out(Reply(op, code, error, <<>>), reports, used, FALSE)

-----------------------------------------------------------------------------
(* The Report document: backend/models/Report.js *)

NoReport == [exists |-> FALSE]

Statuses == {"pending", "in_progress", "resolved", "rejected"}

findById(rid) == IF rid \in ReportIds THEN reports[rid] ELSE NoReport

\* new Report({...}) with the schema defaults
NewReport(owner, body) ==
    [exists |-> TRUE,
     status |-> "pending",
     statusHistory |-> <<>>,
     adminComments |-> <<>>,
     upvotes |-> <<>>,
     title |-> trim(body.title),
     description |-> trim(body.description),
     category |-> body.category,
     priority |-> IF body.priority = "absent" THEN "medium" ELSE body.priority,
     createdAt |-> 0,
     isPublic |-> body.isPublic # "false",
     city |-> body.city,
     reportedBy |-> owner,
     assignedTo |-> NoUser,
     resolvedAt |-> 0,
     estimatedResolutionTime |-> 0]

\* pre('save') stamping resolvedAt on every status change
preSaveAlwaysStamps(orig, doc, isNew, t) ==
    IF doc.status # orig.status /\ ~isNew
    THEN [doc EXCEPT !.statusHistory =
                        Append(@, [status |-> doc.status, changedBy |-> NoUser]),
                     !.resolvedAt = t]
    ELSE doc

\* reportSchema.pre('save'): orig is the document as loaded, doc the document
\* being saved, t the value of new Date().
preSave(orig, doc, isNew, t) ==
    IF doc.status # orig.status /\ ~isNew
    THEN LET pushed == [doc EXCEPT !.statusHistory =
                           Append(@, [status |-> doc.status, changedBy |-> NoUser])]
         IN IF doc.status = "resolved"
            THEN [pushed EXCEPT !.resolvedAt = t]
            ELSE pushed
    ELSE doc

Suffix(old, new) == SubSeq(new, Len(old) + 1, Len(new))

IsPrefix(old, new) ==
    Len(old) <= Len(new) /\ SubSeq(new, 1, Len(old)) = old

\* save() writing the arrays of the loaded document whole
persistWholeArrays(cur, orig, doc) ==
    [cur EXCEPT
        !.status = IF doc.status # orig.status THEN doc.status ELSE @,
        !.assignedTo = IF doc.assignedTo # orig.assignedTo THEN doc.assignedTo ELSE @,
        !.resolvedAt = IF doc.resolvedAt # orig.resolvedAt THEN doc.resolvedAt ELSE @,
        !.estimatedResolutionTime =
            IF doc.estimatedResolutionTime # orig.estimatedResolutionTime
            THEN doc.estimatedResolutionTime ELSE @,
        !.statusHistory = doc.statusHistory,
        !.adminComments = doc.adminComments,
        !.upvotes = doc.upvotes]

\* The update document.save() sends for a loaded document holds its modified
\* paths: a changed scalar is $set, entries pushed to an array are $push-ed
\* onto the stored array, an array that was reassigned is $set whole.
persist(cur, orig, doc) ==
    [cur EXCEPT
        !.status = IF doc.status # orig.status THEN doc.status ELSE @,
        !.assignedTo = IF doc.assignedTo # orig.assignedTo THEN doc.assignedTo ELSE @,
        !.resolvedAt = IF doc.resolvedAt # orig.resolvedAt THEN doc.resolvedAt ELSE @,
        !.estimatedResolutionTime =
            IF doc.estimatedResolutionTime # orig.estimatedResolutionTime
            THEN doc.estimatedResolutionTime ELSE @,
        !.statusHistory = @ \o Suffix(orig.statusHistory, doc.statusHistory),
        !.adminComments = @ \o Suffix(orig.adminComments, doc.adminComments),
        !.upvotes = IF IsPrefix(orig.upvotes, doc.upvotes)
                    THEN @ \o Suffix(orig.upvotes, doc.upvotes)
                    ELSE doc.upvotes]

\* report.save() of a loaded document: the hook, then the write.
save(cur, orig, doc, t) == persist(cur, orig, preSave(orig, doc, FALSE, t))

\* canEdit with the owner comparison inverted
canEditInverted(report, userId, userRole) ==
    userRole = "admin" \/ report.reportedBy # userId

canEdit(report, userId, userRole) ==
    userRole = "admin" \/ report.reportedBy = userId

-----------------------------------------------------------------------------
(* POST /api/reports *)

\* Two of the eleven categories of the enum.
Categories == {"road", "water"}

Priorities == {"low", "medium", "high", "urgent"}

\* createReportValidation; body.valid stands for the checks of the address,
\* the coordinates and the city.
createReportValidation(body) ==
    /\ Length(trim(body.title)) >= 5 /\ Length(trim(body.title)) <= 100
    /\ Length(trim(body.description)) >= 20 /\ Length(trim(body.description)) <= 1000
    /\ body.category \in Categories
    /\ body.priority \in Priorities \cup {"absent"}
    /\ body.valid

createReport(token, body, id) ==
    LET a == authenticateToken(token) IN
    IF ~a.ok THEN Refuse("create", a.code, a.error)
    ELSE IF ~createReportValidation(body) THEN Refuse("create", 400, "VALIDATION")
    ELSE LET fresh == [NewReport(a.user, body) EXCEPT !.createdAt = now + 1]
             doc == preSave(fresh, fresh, TRUE, now + 1)
         IN Out(Reply("create", 201, "", [rid |-> id, user |-> a.user]),
                [reports EXCEPT ![id] = doc], used \cup {id}, TRUE)

-----------------------------------------------------------------------------
(* PUT /api/admin/reports/:id/status *)

\* The handler's changes to the loaded document, before save().
statusUpdateDoc(report, admin, status, hasComment, est) ==
    LET d1 == [report EXCEPT !.status = status]
        d2 == IF est # 0 THEN [d1 EXCEPT !.estimatedResolutionTime = est] ELSE d1
        d3 == [d2 EXCEPT !.statusHistory =
                  Append(@, [status |-> status, changedBy |-> admin])]
    IN IF hasComment
       THEN [d3 EXCEPT !.adminComments = Append(@, [commentedBy |-> admin])]
       ELSE d3

\* The status handler without its area check
outOfAreaNever(admin, report) == FALSE

outOfArea(admin, report) ==
    /\ users[admin].adminArea # NoArea
    /\ ~includes(toLowerCase(report.city), toLowerCase(users[admin].adminArea))

updateStatus(token, rid, status, hasComment, est) ==
    LET a == adminGate(token)
        orig == findById(rid)
    IN
    IF ~a.ok THEN Refuse("status", a.code, a.error)
    ELSE IF status \notin Statuses THEN Refuse("status", 400, "VALIDATION")
    ELSE IF ~orig.exists THEN Refuse("status", 404, "REPORT_NOT_FOUND")
    ELSE IF outOfArea(a.user, orig) THEN Refuse("status", 403, "AREA_ACCESS_DENIED")
    ELSE LET doc == statusUpdateDoc(orig, a.user, status, hasComment, est)
         IN Out(Reply("status", 200, "",
                      [rid |-> rid, user |-> a.user,
                       statusChanged |-> orig.status # status]),
                [reports EXCEPT ![rid] = save(orig, orig, doc, now + 1)],
                used, TRUE)

-----------------------------------------------------------------------------
(* PUT /api/admin/reports/:id/assign *)

NoSuchUser == "nobody"       \* a well-formed id that names no user
MalformedId == "malformed"   \* not a Mongo id

userExists(id) == id \in UserIds /\ users[id].exists

assignDoc(report, admin, assignedTo) ==
    LET d1 == [report EXCEPT !.assignedTo = assignedTo,
                             !.adminComments = Append(@, [commentedBy |-> admin])]
    IN IF report.status = "pending"
       THEN [d1 EXCEPT !.status = "in_progress",
                       !.statusHistory =
                           Append(@, [status |-> "in_progress", changedBy |-> admin])]
       ELSE d1

\* The assign handler without its check of the assigned user
assignReportUnchecked(token, rid, assignedTo) ==
    LET a == adminGate(token)
        orig == findById(rid)
    IN
    IF ~a.ok THEN Refuse("assign", a.code, a.error)
    ELSE IF assignedTo = MalformedId THEN Refuse("assign", 400, "VALIDATION")
    ELSE IF ~orig.exists THEN Refuse("assign", 404, "REPORT_NOT_FOUND")
    ELSE Out(Reply("assign", 200, "", [rid |-> rid, user |-> a.user]),
             [reports EXCEPT ![rid] =
                 save(orig, orig, assignDoc(orig, a.user, assignedTo), now + 1)],
             used, TRUE)

assignReport(token, rid, assignedTo) ==
    LET a == adminGate(token)
        orig == findById(rid)
    IN
    IF ~a.ok THEN Refuse("assign", a.code, a.error)
    ELSE IF assignedTo = MalformedId THEN Refuse("assign", 400, "VALIDATION")
    ELSE IF ~orig.exists THEN Refuse("assign", 404, "REPORT_NOT_FOUND")
    ELSE IF ~userExists(assignedTo) \/ users[assignedTo].role # "admin"
    THEN Refuse("assign", 400, "INVALID_ADMIN_USER")
    ELSE Out(Reply("assign", 200, "", [rid |-> rid, user |-> a.user]),
             [reports EXCEPT ![rid] =
                 save(orig, orig, assignDoc(orig, a.user, assignedTo), now + 1)],
             used, TRUE)

-----------------------------------------------------------------------------
(* POST /api/admin/reports/:id/comment *)

commentDoc(report, admin) ==
    [report EXCEPT !.adminComments = Append(@, [commentedBy |-> admin])]

addComment(token, rid, valid) ==
    LET a == adminGate(token)
        orig == findById(rid)
    IN
    IF ~a.ok THEN Refuse("comment", a.code, a.error)
    ELSE IF ~valid THEN Refuse("comment", 400, "VALIDATION")
    ELSE IF ~orig.exists THEN Refuse("comment", 404, "REPORT_NOT_FOUND")
    ELSE Out(Reply("comment", 200, "", [rid |-> rid, user |-> a.user]),
             [reports EXCEPT ![rid] =
                 save(orig, orig, commentDoc(orig, a.user), now + 1)],
             used, TRUE)

-----------------------------------------------------------------------------
(* GET /api/reports/:id *)

hasUserUpvoted(report, user) ==
    user # NoUser /\ \E i \in 1..Len(report.upvotes) : report.upvotes[i] = user

\* The view check without its `!req.user` case
viewDeniedSkipsAnonymous(report, user) ==
    /\ ~report.isPublic
    /\ user # NoUser
    /\ user # report.reportedBy /\ users[user].role # "admin"

\* The view check of the handler: TRUE when the request is answered 403.
viewDenied(report, user) ==
    /\ ~report.isPublic
    /\ \/ user = NoUser
       \/ user # report.reportedBy /\ users[user].role # "admin"

getReport(token, rid) ==
    LET user == optionalAuth(token)
        report == findById(rid)
    IN
    IF ~report.exists THEN Refuse("get", 404, "REPORT_NOT_FOUND")
    \* populate('reportedBy') of a deleted owner is null: reading its _id throws
    ELSE IF ~report.isPublic /\ user # NoUser /\ ~userExists(report.reportedBy)
    THEN Refuse("get", 500, "REPORT_FETCH_ERROR")
    ELSE IF viewDenied(report, user) THEN Refuse("get", 403, "ACCESS_DENIED")
    ELSE Out(Reply("get", 200, "",
                   [rid |-> rid, user |-> user, report |-> report,
                    upvoteCount |-> Len(report.upvotes),
                    hasUserUpvoted |-> hasUserUpvoted(report, user)]),
             reports, used, FALSE)

-----------------------------------------------------------------------------
(* PUT /api/reports/:id *)

\* An update that copies the status of the body, when it has one, as well
applyUpdateWithStatus(report, body) ==
    [report EXCEPT
        !.status = IF "status" \in DOMAIN body /\ body.status # "absent"
                   THEN body.status ELSE @,
        !.isPublic = IF body.isPublic \in {"true", "false"}
                     THEN body.isPublic = "true" ELSE @]

\* updateData applied by findByIdAndUpdate: only the listed content fields,
\* each when the body holds a truthy value (isPublic: a boolean).
applyUpdate(report, body) ==
    [report EXCEPT
        !.title = IF Length(body.title) > 0 THEN trim(body.title) ELSE @,
        !.description =
            IF Length(body.description) > 0 THEN trim(body.description) ELSE @,
        !.category = IF body.category # "absent" THEN body.category ELSE @,
        !.priority = IF body.priority # "absent" THEN body.priority ELSE @,
        !.isPublic = IF body.isPublic \in {"true", "false"}
                     THEN body.isPublic = "true" ELSE @]

\* runValidators: the schema's validators of the paths that are updated.
\* The schema bounds the title from above only.
updateValidators(body) ==
    /\ Length(body.title) > 0 =>
          /\ Length(trim(body.title)) > 0
          /\ Length(trim(body.title)) <= 100
    /\ Length(body.description) > 0 =>
          /\ Length(trim(body.description)) >= 20
          /\ Length(trim(body.description)) <= 1000
    /\ body.category \in Categories \cup {"absent"}
    /\ body.priority \in Priorities \cup {"absent"}

putReport(token, rid, body) ==
    LET a == authenticateToken(token)
        report == findById(rid)
    IN
    IF ~a.ok THEN Refuse("put", a.code, a.error)
    ELSE IF ~report.exists THEN Refuse("put", 404, "REPORT_NOT_FOUND")
    ELSE IF ~canEdit(report, a.user, users[a.user].role)
    THEN Refuse("put", 403, "ACCESS_DENIED")
    ELSE IF ~updateValidators(body) THEN Refuse("put", 500, "REPORT_UPDATE_ERROR")
    ELSE Out(Reply("put", 200, "", [rid |-> rid, user |-> a.user, body |-> body]),
             [reports EXCEPT ![rid] = applyUpdate(report, body)], used, TRUE)

-----------------------------------------------------------------------------
(* DELETE /api/reports/:id *)

deleteReport(token, rid) ==
    LET a == authenticateToken(token)
        report == findById(rid)
    IN
    IF ~a.ok THEN Refuse("delete", a.code, a.error)
    ELSE IF ~report.exists THEN Refuse("delete", 404, "REPORT_NOT_FOUND")
    ELSE IF ~canEdit(report, a.user, users[a.user].role)
    THEN Refuse("delete", 403, "ACCESS_DENIED")
    ELSE Out(Reply("delete", 200, "", [rid |-> rid, user |-> a.user]),
             [reports EXCEPT ![rid] = NoReport], used, TRUE)

-----------------------------------------------------------------------------
(* POST /api/reports/:id/upvote *)

\* reportSchema.methods.addUpvote: the document after the push (or untouched)
addUpvote(report, userId) ==
    IF ~hasUserUpvoted(report, userId)
    THEN [report EXCEPT !.upvotes = Append(@, userId)]
    ELSE report

\* reportSchema.methods.removeUpvote: the upvotes array is reassigned
removeUpvote(report, userId) ==
    [report EXCEPT !.upvotes = SelectSeq(@, LAMBDA v : v # userId)]

\* The loaded document after the handler's toggle.
toggleDoc(report, userId) ==
    IF hasUserUpvoted(report, userId)
    THEN removeUpvote(report, userId)
    ELSE addUpvote(report, userId)

toggleUpvote(token, rid) ==
    LET a == authenticateToken(token)
        report == findById(rid)
    IN
    IF ~a.ok THEN Refuse("upvote", a.code, a.error)
    ELSE IF ~report.exists THEN Refuse("upvote", 404, "REPORT_NOT_FOUND")
    ELSE LET doc == toggleDoc(report, a.user)
         IN Out(Reply("upvote", 200, "",
                      [rid |-> rid, user |-> a.user,
                       upvoted |-> ~hasUserUpvoted(report, a.user),
                       upvoteCount |-> Len(doc.upvotes)]),
                [reports EXCEPT ![rid] = save(report, report, doc, now + 1)],
                used, TRUE)

-----------------------------------------------------------------------------
(* GET /api/reports and GET /api/admin/reports: filtered, sorted pages *)

Min(a, b) == IF a < b THEN a ELSE b

\* The comparison order of the priority strings: high < low < medium < urgent
StringRank(p) ==
    CASE p = "high" -> 1 [] p = "low" -> 2 [] p = "medium" -> 3 [] OTHER -> 4

\* The value a report is sorted by.  upvoteCount is a virtual: no stored
\* document has the field, so every document sorts equal.
SortKey(rid, sortBy) ==
    CASE sortBy = "createdAt" -> reports[rid].createdAt
      [] sortBy = "priority" -> StringRank(reports[rid].priority)
      [] OTHER -> 0

\* Report.find(query).sort(sortOptions): the matching documents in an order
\* that respects the sort key; documents with equal keys come in any order,
\* and not in the same order in every execution.
find(matching, sortBy, sortOrder) ==
    {o \in [1..Cardinality(matching) -> matching] :
        /\ \A i, j \in DOMAIN o : o[i] = o[j] => i = j
        /\ \A i, j \in DOMAIN o :
              i < j => IF sortOrder = "desc"
                       THEN SortKey(o[i], sortBy) >= SortKey(o[j], sortBy)
                       ELSE SortKey(o[i], sortBy) <= SortKey(o[j], sortBy)}

\* .skip(skip).limit(limit)
skipLimit(order, page, limit) ==
    SubSeq(order, (page - 1) * limit + 1, Min(page * limit, Len(order)))

\* Math.ceil(total / limit)
ceilDiv(total, limit) == (total + limit - 1) \div limit

pagination(page, limit, total) ==
    [currentPage |-> page,
     totalPages |-> ceilDiv(total, limit),
     totalReports |-> total,
     hasNextPage |-> page < ceilDiv(total, limit),
     hasPrevPage |-> page > 1]

\* The $or of the text search: title, description (the address is not kept).
searchMatches(report, search) ==
    \/ regexTest(search, report.title.word)
    \/ regexTest(search, report.description.word)

\* query.priority = priority: a string selects the reports of that priority;
\* the query string priority[$ne]=high arrives as the object { $ne: 'high' }.
priorityMatches(report, priority) ==
    IF priority = "$ne:high" THEN report.priority # "high"
    ELSE report.priority = priority

\* The filters both listings share.
commonFilters(report, q) ==
    /\ q.status # "absent" => report.status = q.status
    /\ q.category # "absent" => report.category = q.category
    /\ q.priority # "absent" => priorityMatches(report, q.priority)
    /\ q.search # <<>> => searchMatches(report, q.search)

\* The validators of the query string both listings share.
listValidation(q, maxLimit) ==
    /\ q.page >= 1
    /\ q.limit >= 1 /\ q.limit <= maxLimit
    /\ q.status \in Statuses \cup {"absent"}
    /\ q.category \in Categories \cup {"absent"}

\* The validators of GET /api/reports (updatedAt, which the model does not
\* keep, is left out of the sort fields); the priority is not validated.
publicListValidation(q) ==
    /\ listValidation(q, 50)
    /\ q.city # <<>> => Len(q.city) >= 2
    /\ q.sortBy \in {"createdAt", "priority", "upvoteCount"}
    /\ q.sortOrder \in {"asc", "desc"}

\* The validators of GET /api/admin/reports; the sort is not validated.
adminListValidation(q) ==
    /\ listValidation(q, 100)
    /\ q.priority \in Priorities \cup {"absent"}
    /\ q.assignedTo # MalformedId

\* The query of GET /api/reports without its isPublic condition
publicQueryOfAll(q) ==
    {r \in ReportIds :
        /\ reports[r].exists
        /\ commonFilters(reports[r], q)
        /\ q.city # <<>> => regexTest(q.city, reports[r].city)}

\* GET /api/reports: the documents its query selects
publicQuery(q) ==
    {r \in ReportIds :
        /\ reports[r].exists
        /\ reports[r].isPublic
        /\ commonFilters(reports[r], q)
        /\ q.city # <<>> => regexTest(q.city, reports[r].city)}

\* GET /api/reports; order is the order the store returns.
listReports(token, q, order) ==
    LET user == optionalAuth(token)
        items == skipLimit(order, q.page, q.limit)
    IN
    IF ~publicListValidation(q)
    THEN Refuse("list", 400, "VALIDATION")
    ELSE Out(Reply("list", 200, "",
                   [user |-> user, query |-> q, items |-> items,
                    hasUserUpvoted |->
                        [i \in DOMAIN items |-> hasUserUpvoted(reports[items[i]], user)],
                    pagination |->
                        pagination(q.page, q.limit, Cardinality(publicQuery(q)))]),
             reports, used, FALSE)

\* GET /api/admin/reports: the documents its query selects.  The admin's
\* area, when set, replaces the city filter.  dateFrom and dateTo are dates
\* (0: not given).
adminQuery(admin, q) ==
    LET city == IF users[admin].adminArea # NoArea
                THEN users[admin].adminArea ELSE q.city
    IN {r \in ReportIds :
           /\ reports[r].exists
           /\ commonFilters(reports[r], q)
           /\ q.assignedTo # "absent" => reports[r].assignedTo = q.assignedTo
           /\ q.dateFrom # 0 => reports[r].createdAt >= q.dateFrom
           /\ q.dateTo # 0 => reports[r].createdAt <= q.dateTo
           /\ city # <<>> => regexTest(city, reports[r].city)}

\* GET /api/admin/reports
adminListReports(token, q, order) ==
    LET a == adminGate(token) IN
    IF ~a.ok THEN Refuse("adminList", a.code, a.error)
    ELSE IF ~adminListValidation(q)
    THEN Refuse("adminList", 400, "VALIDATION")
    ELSE Out(Reply("adminList", 200, "",
                   [user |-> a.user, query |-> q,
                    items |-> skipLimit(order, q.page, q.limit),
                    pagination |->
                        pagination(q.page, q.limit,
                                   Cardinality(adminQuery(a.user, q)))]),
             reports, used, FALSE)

-----------------------------------------------------------------------------
(* GET /api/admin/dashboard and GET /api/admin/users *)

\* The reports of the admin's area ($match: baseQuery)
baseQuery(admin) ==
    {r \in ReportIds :
        /\ reports[r].exists
        /\ users[admin].adminArea # NoArea =>
              regexTest(users[admin].adminArea, reports[r].city)}

\* GET /api/admin/dashboard: the totals by status
getDashboard(token) ==
    LET a == adminGate(token) IN
    IF ~a.ok THEN Refuse("dashboard", a.code, a.error)
    ELSE Out(Reply("dashboard", 200, "",
                   [user |-> a.user,
                    total |-> Cardinality(baseQuery(a.user)),
                    byStatus |->
                        [st \in Statuses |->
                            Cardinality({r \in baseQuery(a.user) :
                                            reports[r].status = st})]]),
             reports, used, FALSE)

\* GET /api/admin/users: the users of a role, without their passwords
getUsers(token, role) ==
    LET a == adminGate(token) IN
    IF ~a.ok THEN Refuse("users", a.code, a.error)
    ELSE IF role \notin {"user", "admin", "absent"}
    THEN Refuse("users", 400, "VALIDATION")
    ELSE Out(Reply("users", 200, "",
                   [user |-> a.user,
                    users |-> {u \in UserIds :
                                  /\ users[u].exists
                                  /\ role # "absent" => users[u].role = role}]),
             reports, used, FALSE)

-----------------------------------------------------------------------------
(* The browser client: frontend/src/services/api.js *)

\* The requests the page makes through the `api` instance.  A request is its
\* config object: the interceptor's _retry flag, where its promise stands
\* ("new" not made yet, "sent" waiting for the server, "queued" in
\* failedQueue, "refreshing" suspended at `await refreshApi.post`,
\* "fulfilled", "rejected") and how often the interceptor has sent it again.
Requests == {"q1", "q2", "q3"}

NewRequest == [phase |-> "new", retry |-> FALSE, replays |-> 0]

\* The module state when the script has loaded: isRefreshing, failedQueue,
\* the refresh-token cookie and the stored token (cookie and default header).
PageLoad ==
    [isRefreshing |-> FALSE, failedQueue |-> <<>>,
     requests |-> [q \in Requests |-> NewRequest],
     refreshToken |-> TRUE, authorization |-> TRUE]

Queued(c) == {c.failedQueue[i] : i \in 1..Len(c.failedQueue)}

\* api(originalRequest): the interceptor sends the request again.
replay(c, q) ==
    [c EXCEPT !.requests[q].phase = "sent", !.requests[q].replays = @ + 1]

reject(c, q) == [c EXCEPT !.requests[q].phase = "rejected"]

\* processQueue settles every queued promise and empties the queue.  The
\* callbacks of a settled promise run before the next response can arrive:
\* a resolved one sends its request again, a rejected one rejects.
processQueueKeepsQueue(c, error) ==
    [c EXCEPT !.requests = [q \in Requests |->
                               IF q \in Queued(c)
                               THEN IF error THEN [@[q] EXCEPT !.phase = "rejected"]
                                    ELSE [@[q] EXCEPT !.phase = "sent", !.replays = @ + 1]
                               ELSE @[q]]]

processQueue(c, error) ==
    [c EXCEPT !.requests = [q \in Requests |->
                               IF q \in Queued(c)
                               THEN IF error THEN [@[q] EXCEPT !.phase = "rejected"]
                                    ELSE [@[q] EXCEPT !.phase = "sent", !.replays = @ + 1]
                               ELSE @[q]],
              !.failedQueue = <<>>]

clearAuthData(c) == [c EXCEPT !.refreshToken = FALSE, !.authorization = FALSE]

setAuthToken(c) == [c EXCEPT !.authorization = TRUE]

\* The catch and finally blocks of the refresh.
refreshFailed(c, q) ==
    [reject(clearAuthData(processQueue(c, TRUE)), q) EXCEPT !.isRefreshing = FALSE]

\* `if (isRefreshing)`: a refresh is under way.
refreshUnderWayIgnored(c) == FALSE

refreshUnderWay(c) == c.isRefreshing

\* `!originalRequest._retry`.
notRetried(c, q) == ~c.requests[q].retry

RefreshErrors == {"TOKEN_EXPIRED", "INVALID_TOKEN"}

\* The response interceptor, up to its first await.  code 0 is a request
\* that got no response.
interceptor(c, q, r) ==
    IF r.code = 200 THEN [c EXCEPT !.requests[q].phase = "fulfilled"]
    ELSE IF r.code = 0 THEN reject(c, q)
    ELSE IF r.code = 401
    THEN IF notRetried(c, q) /\ r.error \in RefreshErrors
         THEN IF refreshUnderWay(c)
              THEN [c EXCEPT !.failedQueue = Append(@, q),
                             !.requests[q].phase = "queued"]
              ELSE LET c1 == [c EXCEPT !.requests[q].retry = TRUE,
                                       !.isRefreshing = TRUE]
                   IN IF ~c1.refreshToken
                      THEN refreshFailed(c1, q)
                      ELSE [c1 EXCEPT !.requests[q].phase = "refreshing"]
         ELSE reject(clearAuthData(c), q)
    ELSE reject(c, q)

\* The interceptor after `await refreshApi.post('/auth/refresh')`.
refreshDone(c, q, r) ==
    IF r.code = 200 /\ r.token
    THEN [replay(processQueue(setAuthToken(c), FALSE), q) EXCEPT !.isRefreshing = FALSE]
    ELSE refreshFailed(c, q)

-----------------------------------------------------------------------------
(* Requests *)

\* A request handled without interleaving: every write reads the clock.
Handle(o) ==
    /\ o.write => now < MaxTime
    /\ now' = IF o.write THEN now + 1 ELSE now
    /\ reports' = o.reports
    /\ used' = o.used
    /\ resp' = o.resp
    /\ UNCHANGED <<client, env, users, inflight>>

CreateReport(token, body, pool) ==
    \E id \in pool \ used : Handle(createReport(token, body, id))

UpdateStatus(token, rid, status, hasComment, est) ==
    Handle(updateStatus(token, rid, status, hasComment, est))

AssignReport(token, rid, assignedTo) == Handle(assignReport(token, rid, assignedTo))

AddComment(token, rid, valid) == Handle(addComment(token, rid, valid))

GetReport(token, rid) == Handle(getReport(token, rid))

PutReport(token, rid, body) == Handle(putReport(token, rid, body))

DeleteReport(token, rid) == Handle(deleteReport(token, rid))

ToggleUpvote(token, rid) == Handle(toggleUpvote(token, rid))

ListReports(token, q) ==
    \E order \in find(publicQuery(q), q.sortBy, q.sortOrder) :
        Handle(listReports(token, q, order))

\* The query of a caller the gate refuses is never run.
AdminListReports(token, q) ==
    IF adminGate(token).ok
    THEN \E order \in find(adminQuery(adminGate(token).user, q), q.sortBy, q.sortOrder) :
             Handle(adminListReports(token, q, order))
    ELSE Handle(adminListReports(token, q, <<>>))

GetDashboard(token) == Handle(getDashboard(token))

GetUsers(token, role) == Handle(getUsers(token, role))

-----------------------------------------------------------------------------
(* Inputs *)

\* Authorization headers: none, the access token of every user, and an
\* admin's token forged or past its expiry.
Headers ==
    {NoToken} \cup {generateToken(u) : u \in UserIds}
      \cup {Forged(generateToken("a1")), Expired(generateToken("a1"))}

\* The headers of the requests that drive the lifecycle.
ActorHeaders == {NoToken, generateToken("u1"), generateToken("a1")}

GoodTitle == Text(5, 0, North)

GoodDescription == Text(20, 0, North)

CreateBodies ==
    [valid : BOOLEAN, isPublic : {"absent", "false"}, city : {North},
     title : {GoodTitle}, description : {GoodDescription},
     category : {"road"}, priority : {"absent"}]

PutBodies ==
    [isPublic : {"absent", "true", "false"}, title : {NoText},
     description : {NoText}, category : {"absent"}, priority : {"absent"}]

StatusInputs == Statuses \cup {"closed"}

Assignees == {"a1", "u1", NoSuchUser, MalformedId}

TargetIds(pool) == pool \cup {MissingId}

EmptyStore ==
    /\ reports = [r \in ReportIds |-> NoReport]
    /\ used = {}
    /\ now = 0
    /\ inflight = [s \in Slots |-> [op |-> "idle"]]
    /\ resp = NoResp
    /\ client = PageLoad

FixedEnv == env = [JWT_SECRET |-> "k1", JWT_REFRESH_SECRET |-> "k2"]

-----------------------------------------------------------------------------
(* Spec: the life of one report under the administrative operations *)

Init == FixedEnv /\ users = BaseUsers /\ EmptyStore

Next ==
    \/ \E t \in ActorHeaders, b \in CreateBodies : CreateReport(t, b, {"r1"})
    \/ \E t \in ActorHeaders, r \in TargetIds({"r1"}), s \in StatusInputs, c \in BOOLEAN :
          UpdateStatus(t, r, s, c, 0)
    \/ \E t \in ActorHeaders, r \in TargetIds({"r1"}), u \in Assignees :
          AssignReport(t, r, u)
    \/ \E t \in ActorHeaders, r \in TargetIds({"r1"}), v \in BOOLEAN :
          AddComment(t, r, v)

Spec == Init /\ [][Next]_vars

-----------------------------------------------------------------------------
(* SpecAccess: reports of several owners read, edited and deleted *)

\* Reports are created by u1, u2 or a1, public or private.
OwnerHeaders == {generateToken(u) : u \in {"u1", "u2", "a1"}}

AccessBodies == {b \in CreateBodies : b.valid}

NextAccess ==
    \/ \E t \in OwnerHeaders, b \in AccessBodies : CreateReport(t, b, ReportIds)
    \/ \E t \in Headers, r \in TargetIds(ReportIds) : GetReport(t, r)
    \/ \E t \in Headers, r \in TargetIds(ReportIds), b \in PutBodies : PutReport(t, r, b)
    \/ \E t \in Headers, r \in TargetIds(ReportIds) : DeleteReport(t, r)

SpecAccess == Init /\ [][NextAccess]_vars

-----------------------------------------------------------------------------
(* SpecVotes: upvote toggles handled one after the other *)

NextVotes ==
    \/ \E t \in OwnerHeaders, b \in AccessBodies : CreateReport(t, b, {"r1"})
    \/ \E t \in Headers, r \in TargetIds({"r1"}) : ToggleUpvote(t, r)

SpecVotes == Init /\ [][NextVotes]_vars

-----------------------------------------------------------------------------
(* SpecConc: upvote requests suspended between findById and save *)

Idle == [op |-> "idle"]

\* POST /api/reports/:id/upvote up to `await Report.findById`: the request
\* is answered at once when it fails, and otherwise holds the loaded document.
UpvoteFind(slot, token, rid) ==
    LET o == toggleUpvote(token, rid) IN
    /\ inflight[slot] = Idle
    /\ IF o.write
       THEN /\ inflight' = [inflight EXCEPT ![slot] =
                               [op |-> "upvote", user |-> o.resp.user, rid |-> rid,
                                orig |-> findById(rid)]]
            /\ UNCHANGED <<client, env, users, reports, used, now, resp>>
       ELSE /\ resp' = o.resp
            /\ UNCHANGED <<client, env, users, reports, used, now, inflight>>

\* The rest of the handler: the toggle of the loaded document and its save().
\* versioned: the store rejects a reassigned array when the stored array has
\* changed since the load (the catch block answers 500).
UpvoteSave(slot, versioned) ==
    LET q == inflight[slot]
        doc == toggleDoc(q.orig, q.user)
        cur == reports[q.rid]
        rejected == \/ ~cur.exists
                    \/ /\ versioned
                       /\ ~IsPrefix(q.orig.upvotes, doc.upvotes)
                       /\ cur.upvotes # q.orig.upvotes
    IN
    /\ q.op = "upvote"
    /\ now < MaxTime
    /\ now' = now + 1
    /\ inflight' = [inflight EXCEPT ![slot] = Idle]
    /\ IF rejected
       THEN /\ resp' = Reply("upvote", 500, "UPVOTE_ERROR", <<>>)
            /\ UNCHANGED reports
       ELSE /\ reports' = [reports EXCEPT ![q.rid] = save(cur, q.orig, doc, now + 1)]
            /\ resp' = Reply("upvote", 200, "",
                             [rid |-> q.rid, user |-> q.user,
                              upvoted |-> ~hasUserUpvoted(q.orig, q.user),
                              upvoteCount |-> Len(doc.upvotes)])
    /\ UNCHANGED <<client, env, users, used>>

VoterHeaders == {NoToken, generateToken("u1"), generateToken("u2")}

VoteBodies == {b \in AccessBodies : b.isPublic = "absent"}

NextConc ==
    \/ \E t \in VoterHeaders, b \in VoteBodies : CreateReport(t, b, {"r1"})
    \/ \E s \in Slots, t \in VoterHeaders, r \in TargetIds({"r1"}) : UpvoteFind(s, t, r)
    \/ \E s \in Slots, v \in BOOLEAN : UpvoteSave(s, v)

SpecConc == Init /\ [][NextConc]_vars

-----------------------------------------------------------------------------
(* SpecAdmin: status updates and assignments suspended between findById and *)
(* save, so that several admins' requests on one report interleave          *)

\* PUT /api/admin/reports/:id/status up to `await Report.findById`
StatusFind(slot, token, rid, status, hasComment, est) ==
    LET o == updateStatus(token, rid, status, hasComment, est) IN
    /\ inflight[slot] = Idle
    /\ IF o.write
       THEN /\ inflight' = [inflight EXCEPT ![slot] =
                               [op |-> "status", user |-> o.resp.user, rid |-> rid,
                                orig |-> findById(rid), status |-> status,
                                hasComment |-> hasComment, est |-> est]]
            /\ UNCHANGED <<client, env, users, reports, used, now, resp>>
       ELSE /\ resp' = o.resp
            /\ UNCHANGED <<client, env, users, reports, used, now, inflight>>

\* The rest of the handler: the changes to the loaded document and save().
StatusSave(slot) ==
    LET q == inflight[slot]
        doc == statusUpdateDoc(q.orig, q.user, q.status, q.hasComment, q.est)
    IN
    /\ q.op = "status"
    /\ now < MaxTime
    /\ now' = now + 1
    /\ inflight' = [inflight EXCEPT ![slot] = Idle]
    /\ reports' = [reports EXCEPT ![q.rid] = save(@, q.orig, doc, now + 1)]
    /\ resp' = Reply("status", 200, "",
                     [rid |-> q.rid, user |-> q.user,
                      statusChanged |-> q.orig.status # q.status])
    /\ UNCHANGED <<client, env, users, used>>

\* PUT /api/admin/reports/:id/assign up to its awaited lookups
AssignFind(slot, token, rid, assignedTo) ==
    LET o == assignReport(token, rid, assignedTo) IN
    /\ inflight[slot] = Idle
    /\ IF o.write
       THEN /\ inflight' = [inflight EXCEPT ![slot] =
                               [op |-> "assign", user |-> o.resp.user, rid |-> rid,
                                orig |-> findById(rid), assignedTo |-> assignedTo]]
            /\ UNCHANGED <<client, env, users, reports, used, now, resp>>
       ELSE /\ resp' = o.resp
            /\ UNCHANGED <<client, env, users, reports, used, now, inflight>>

AssignSave(slot) ==
    LET q == inflight[slot]
        doc == assignDoc(q.orig, q.user, q.assignedTo)
    IN
    /\ q.op = "assign"
    /\ now < MaxTime
    /\ now' = now + 1
    /\ inflight' = [inflight EXCEPT ![slot] = Idle]
    /\ reports' = [reports EXCEPT ![q.rid] = save(@, q.orig, doc, now + 1)]
    /\ resp' = Reply("assign", 200, "", [rid |-> q.rid, user |-> q.user])
    /\ UNCHANGED <<client, env, users, used>>

\* A request is suspended in the first idle slot.
FirstIdle(slot) ==
    /\ inflight[slot] = Idle
    /\ \A s \in Slots : s < slot => inflight[s] # Idle

\* One citizen's report, and the requests of an admin (from several sessions)
\* that move it into and out of 'resolved'.
NextAdmin ==
    \/ \E b \in VoteBodies : CreateReport(generateToken("u1"), b, {"r1"})
    \/ \E s \in Slots, st \in {"resolved", "in_progress"} :
          FirstIdle(s) /\ StatusFind(s, generateToken("a1"), "r1", st, FALSE, 0)
    \/ \E s \in Slots : StatusSave(s)
    \/ \E s \in Slots : FirstIdle(s) /\ AssignFind(s, generateToken("a1"), "r1", "a1")
    \/ \E s \in Slots : AssignSave(s)

SpecAdmin == Init /\ [][NextAdmin]_vars

-----------------------------------------------------------------------------
(* SpecGate: every operation under /api/admin, called by everybody *)

\* The query string of a listing that names no filter.
NoFilter ==
    [page |-> 1, limit |-> 1, status |-> "absent", category |-> "absent",
     priority |-> "absent", city |-> <<>>, search |-> <<>>,
     assignedTo |-> "absent", dateFrom |-> 0, dateTo |-> 0,
     sortBy |-> "createdAt", sortOrder |-> "desc"]

\* The admin a1 is active, deactivated or removed.
InitGate ==
    /\ FixedEnv
    /\ \E a \in {"active", "deactivated", "removed"} :
          users = [BaseUsers EXCEPT !["a1"].isActive = (a # "deactivated"),
                                    !["a1"].exists = (a # "removed")]
    /\ EmptyStore

GateQueries == {NoFilter, [NoFilter EXCEPT !.page = 0]}

NextGate ==
    \/ \E b \in VoteBodies : CreateReport(generateToken("u1"), b, {"r1"})
    \/ \E t \in Headers, r \in TargetIds({"r1"}), st \in {"resolved", "closed"} :
          UpdateStatus(t, r, st, FALSE, 0)
    \/ \E t \in Headers, r \in TargetIds({"r1"}), u \in Assignees :
          AssignReport(t, r, u)
    \/ \E t \in Headers, r \in TargetIds({"r1"}), v \in BOOLEAN : AddComment(t, r, v)
    \/ \E t \in Headers, q \in GateQueries : AdminListReports(t, q)
    \/ \E t \in Headers : GetDashboard(t)
    \/ \E t \in Headers, role \in {"absent", "admin", "root"} : GetUsers(t, role)

SpecGate == InitGate /\ [][NextGate]_vars

-----------------------------------------------------------------------------
(* SpecList: the two listings over reports of mixed visibility and priority *)

ListBodies ==
    [valid : {TRUE}, isPublic : {"absent", "false"}, city : {North},
     title : {GoodTitle}, description : {GoodDescription},
     category : {"road"}, priority : {"absent", "high"}]

\* The pages of one and of two reports, by creation time and by priority, and
\* a page that does not exist.
ListQueries ==
    {[NoFilter EXCEPT !.page = pg, !.limit = l, !.sortBy = sb] :
        pg \in 0..2, l \in 1..2, sb \in {"createdAt", "priority"}}

ListHeaders == {NoToken, generateToken("u2"), generateToken("a1")}

NextList ==
    \/ \E b \in ListBodies : CreateReport(generateToken("u1"), b, ReportIds)
    \/ \E r \in ReportIds, b \in {pb \in PutBodies : pb.isPublic # "absent"} :
          PutReport(generateToken("u1"), r, b)
    \/ \E t \in ListHeaders, q \in ListQueries : ListReports(t, q)
    \/ \E t \in ListHeaders, q \in ListQueries : AdminListReports(t, q)

SpecList == Init /\ [][NextList]_vars

-----------------------------------------------------------------------------
(* SpecContent: the content of a report created and edited, with texts at   *)
(* and beyond the bounds, while an admin and a voter act on the report      *)

\* Titles and descriptions at the bounds of the create validation, outside
\* them, and padded with white space.
Titles == {Text(4, 0, North), Text(5, 0, North), Text(100, 3, North),
           Text(101, 0, North)}

Descriptions == {Text(19, 2, North), Text(20, 0, North), Text(1001, 0, North)}

ContentBodies ==
    [valid : {TRUE}, isPublic : {"absent"}, city : {North},
     title : Titles, description : Descriptions,
     category : {"road"}, priority : {"absent"}]

\* Bodies of PUT /reports/:id: content fields, set or absent, and fields the
\* handler does not read.
ContentPutBodies ==
    [isPublic : {"absent"},
     title : {NoText, Text(3, 0, North), Text(101, 0, North)},
     description : {NoText, Text(19, 0, North)},
     category : {"absent"}, priority : {"absent", "urgent"},
     status : {"absent", "resolved"}, reportedBy : {"absent", "u2"}]

ContentHeaders == {generateToken("u1"), generateToken("u2"), generateToken("a1")}

NextContent ==
    \/ \E b \in ContentBodies : CreateReport(generateToken("u1"), b, {"r1"})
    \/ \E t \in ContentHeaders, b \in ContentPutBodies : PutReport(t, "r1", b)
    \/ UpdateStatus(generateToken("a1"), "r1", "resolved", TRUE, 0)
    \/ AssignReport(generateToken("a1"), "r1", "a1")
    \/ ToggleUpvote(generateToken("u2"), "r1")

SpecContent == Init /\ [][NextContent]_vars

-----------------------------------------------------------------------------
(* SpecAuth: the token layer under every configuration of the secrets *)

\* GET /api/auth/profile: a route behind authenticateToken
getProfile(token) ==
    LET a == authenticateToken(token) IN
    IF ~a.ok THEN Refuse("profile", a.code, a.error)
    ELSE Out(Reply("profile", 200, "", [user |-> a.user, presented |-> token]),
             reports, used, FALSE)

\* POST /api/auth/refresh
refresh(refreshToken) ==
    IF refreshToken = NoToken THEN Refuse("refresh", 401, "MISSING_REFRESH_TOKEN")
    ELSE IF verifyRefreshToken(refreshToken) # "ok"
    THEN Refuse("refresh", 401, "INVALID_REFRESH_TOKEN")
    ELSE IF ~userExists(refreshToken.userId) \/ ~users[refreshToken.userId].isActive
    THEN Refuse("refresh", 401, "INVALID_REFRESH_TOKEN")
    ELSE Out(Reply("refresh", 200, "",
                   [token |-> generateToken(refreshToken.userId),
                    presented |-> refreshToken]),
             reports, used, FALSE)

\* What POST /api/auth/login does: its response and the User collection.
LoginOut(r, us, w) == [resp |-> r, users |-> us, write |-> w]

\* body('email').isEmail()
isEmail(email) == email # "not-an-email"

\* body('email').normalizeEmail(): the address in lower case
normalizeEmail(email) == IF email = "U1@X.io" THEN "u1@x.io" ELSE email

\* User.findOne({ email })
findOneByEmail(email) ==
    IF \E u \in UserIds : users[u].exists /\ users[u].email = email
    THEN CHOOSE u \in UserIds : users[u].exists /\ users[u].email = email
    ELSE NoUser

\* user.comparePassword(candidate): the candidate hashes to the stored hash
comparePassword(user, candidate) == Hash(candidate) = users[user].password

\* POST /api/auth/login
login(email, password) ==
    LET sent == [presented |-> [email |-> email, password |-> password]]
        user == findOneByEmail(normalizeEmail(email))
    IN
    IF ~isEmail(email) \/ password = ""
    THEN LoginOut(Reply("login", 400, "VALIDATION", sent), users, FALSE)
    ELSE IF user = NoUser
    THEN LoginOut(Reply("login", 401, "INVALID_CREDENTIALS", sent), users, FALSE)
    ELSE IF ~users[user].isActive
    THEN LoginOut(Reply("login", 401, "ACCOUNT_DEACTIVATED", sent), users, FALSE)
    ELSE IF ~comparePassword(user, password)
    THEN LoginOut(Reply("login", 401, "INVALID_CREDENTIALS", sent), users, FALSE)
    ELSE LoginOut(Reply("login", 200, "",
                        sent @@ [user |-> user,
                                 token |-> generateToken(user),
                                 refreshToken |-> generateRefreshToken(user)]),
                  [users EXCEPT ![user].lastLogin = now + 1], TRUE)

Login(email, password) ==
    LET o == login(email, password) IN
    /\ o.write => now < MaxTime
    /\ now' = IF o.write THEN now + 1 ELSE now
    /\ users' = o.users
    /\ resp' = o.resp
    /\ UNCHANGED <<client, env, reports, used, inflight>>

\* An address nobody registered.
UnknownEmail == "nobody@x.io"

LoginEmails ==
    {"u1@x.io", "U1@X.io", "a1@x.io", "d1@x.io", UnknownEmail, "not-an-email"}

LoginPasswords == {"", "Passw0rd", "Adm1n", "guess"}

GetProfile(token) == Handle(getProfile(token))

Refresh(refreshToken) == Handle(refresh(refreshToken))

AuthUsers == {"u1", "a1"}

\* Every token the server may have issued to these users, fresh or past its
\* expiry, a token signed by a foreign key, and no token.
AuthTokens ==
    {NoToken}
      \cup {generateToken(u) : u \in AuthUsers}
      \cup {generateRefreshToken(u) : u \in AuthUsers}
      \cup {Expired(generateToken(u)) : u \in AuthUsers}
      \cup {Expired(generateRefreshToken(u)) : u \in AuthUsers}
      \cup {Forged(generateRefreshToken(u)) : u \in AuthUsers}

\* JWT_REFRESH_SECRET unset, equal to JWT_SECRET, or a key of its own; the
\* users of issued tokens may since have been deactivated or removed.
InitAuth ==
    /\ env \in [JWT_SECRET : {"k1"}, JWT_REFRESH_SECRET : {"", "k1", "k2"}]
    /\ \E gone \in SUBSET AuthUsers, off \in SUBSET AuthUsers :
          users = [u \in UserIds |->
                      [BaseUsers[u] EXCEPT
                          !.exists = u \notin gone,
                          !.isActive = BaseUsers[u].isActive /\ u \notin off]]
    /\ EmptyStore

NextAuth ==
    \/ \E t \in AuthTokens : GetProfile(t)
    \/ \E t \in AuthTokens : Refresh(t)
    \/ \E e \in LoginEmails, p \in LoginPasswords : Login(e, p)

SpecAuth == InitAuth /\ [][NextAuth]_vars

-----------------------------------------------------------------------------
(* SpecRegister: registrations suspended between findOne and save *)

\* body('password'): six characters or more, with a lower-case letter, an
\* upper-case letter and a digit
passwordValidation(password) ==
    CASE password = "Passw0rd" -> TRUE
      [] password = "Secr3tKey" -> TRUE
      [] OTHER -> FALSE

\* registerValidation; body.valid stands for the checks of the name, the
\* phone and the city.
registerValidation(body) ==
    /\ isEmail(body.email)
    /\ passwordValidation(body.password)
    /\ body.valid

\* new User(userData): the role and the area of an admin come from the body.
NewUser(body, t) ==
    [exists |-> TRUE,
     isActive |-> TRUE,
     role |-> IF body.role = "admin" THEN "admin" ELSE "user",
     adminArea |-> IF body.role = "admin" THEN body.city ELSE NoArea,
     email |-> normalizeEmail(body.email),
     password |-> Hash(body.password),
     lastLogin |-> t]

\* A unique index that does not exist
noUniqueIndex(email) == FALSE

\* The unique index on email: an insert of an address a stored user has
\* fails with the duplicate key error 11000.
duplicateKey(email) ==
    \E u \in UserIds : users[u].exists /\ users[u].email = email

\* POST /api/auth/register up to `await User.findOne`: answered at once when
\* the validation fails or the address is taken.
RegisterFind(slot, body) ==
    LET sent == [presented |-> body] IN
    /\ inflight[slot] = Idle
    /\ IF ~registerValidation(body)
       THEN /\ resp' = Reply("register", 400, "VALIDATION", sent)
            /\ UNCHANGED <<client, env, users, reports, used, now, inflight>>
       ELSE IF findOneByEmail(normalizeEmail(body.email)) # NoUser
       THEN /\ resp' = Reply("register", 409, "USER_EXISTS", sent)
            /\ UNCHANGED <<client, env, users, reports, used, now, inflight>>
       ELSE /\ inflight' = [inflight EXCEPT ![slot] = [op |-> "register", body |-> body]]
            /\ UNCHANGED <<client, env, users, reports, used, now, resp>>

\* The rest of the handler: user.save() (the insert), the tokens, the save
\* of lastLogin and the response; id is the _id of the new user.
RegisterSave(slot, id) ==
    LET q == inflight[slot]
        sent == [presented |-> q.body]
    IN
    /\ q.op = "register"
    /\ ~users[id].exists
    /\ now < MaxTime
    /\ now' = now + 1
    /\ inflight' = [inflight EXCEPT ![slot] = Idle]
    /\ IF duplicateKey(normalizeEmail(q.body.email))
       THEN /\ resp' = Reply("register", 409, "USER_EXISTS", sent)
            /\ UNCHANGED users
       ELSE /\ users' = [users EXCEPT ![id] = NewUser(q.body, now + 1)]
            /\ resp' = Reply("register", 201, "",
                             sent @@ [user |-> id,
                                      token |-> generateToken(id),
                                      refreshToken |-> generateRefreshToken(id)])
    /\ UNCHANGED <<client, env, reports, used>>

\* The ids the next registered users get.
NewUserIds == {"u1", "u2"}

\* a1 and d1 are registered; nobody else is yet.
InitRegister ==
    /\ FixedEnv
    /\ users = [u \in UserIds |->
                   [BaseUsers[u] EXCEPT !.exists = u \notin NewUserIds]]
    /\ EmptyStore

RegisterBodies ==
    [valid : {TRUE}, email : {"u1@x.io", "U1@X.io", "a1@x.io", "not-an-email"},
     password : {"Passw0rd", "guess"},
     role : {"absent", "admin"}, city : {North}]

NextRegister ==
    \/ \E s \in Slots, b \in RegisterBodies : FirstIdle(s) /\ RegisterFind(s, b)
    \/ \E s \in Slots, id \in NewUserIds : RegisterSave(s, id)

SpecRegister == InitRegister /\ [][NextRegister]_vars

-----------------------------------------------------------------------------
(* SpecArea: an admin with or without an area, reports of two cities *)

\* a1 has no area, the area "no" (North in lower case) or the area South.
InitArea ==
    /\ FixedEnv
    /\ \E area \in {NoArea, toLowerCase(North), South} :
          users = [BaseUsers EXCEPT !["a1"].adminArea = area]
    /\ EmptyStore

AreaBodies ==
    [valid : {TRUE}, isPublic : {"absent"}, city : {North, South},
     title : {GoodTitle}, description : {GoodDescription},
     category : {"road"}, priority : {"absent"}]

\* Listings of up to two reports, with and without a city, a status and a
\* start date.
AreaQueries ==
    {[NoFilter EXCEPT !.limit = 2, !.city = c, !.status = st, !.dateFrom = d] :
        c \in {<<>>, North, South}, st \in {"absent", "pending"}, d \in {0, 2}}

NextArea ==
    \/ \E b \in AreaBodies : CreateReport(generateToken("u1"), b, {"r1"})
    \/ \E st \in {"in_progress", "resolved"}, c \in BOOLEAN, e \in 0..1 :
          UpdateStatus(generateToken("a1"), "r1", st, c, e)
    \/ AssignReport(generateToken("a1"), "r1", "a1")
    \/ AddComment(generateToken("a1"), "r1", TRUE)

SpecArea == InitArea /\ [][NextArea]_vars

\* The listings of the same admin over two reports.
NextAreaList ==
    \/ \E b \in AreaBodies : CreateReport(generateToken("u1"), b, ReportIds)
    \/ \E r \in ReportIds : UpdateStatus(generateToken("a1"), r, "resolved", FALSE, 0)
    \/ \E q \in AreaQueries : AdminListReports(generateToken("a1"), q)

SpecAreaList == InitArea /\ [][NextAreaList]_vars

-----------------------------------------------------------------------------
(* SpecLog: every operation on one existing report except its deletion,    *)
(* the admin's status updates and assignments interleaving                 *)

NextLog ==
    \/ \E b \in VoteBodies : CreateReport(generateToken("u1"), b, {"r1"})
    \/ \E s \in Slots :
          FirstIdle(s) /\ StatusFind(s, generateToken("a1"), "r1", "resolved", TRUE, 0)
    \/ \E s \in Slots : StatusSave(s)
    \/ \E s \in Slots : FirstIdle(s) /\ AssignFind(s, generateToken("a1"), "r1", "a1")
    \/ \E s \in Slots : AssignSave(s)
    \/ AddComment(generateToken("a1"), "r1", TRUE)
    \/ \E b \in {x \in PutBodies : x.isPublic = "false"} :
          PutReport(generateToken("u1"), "r1", b)
    \/ ToggleUpvote(generateToken("u2"), "r1")

SpecLog == Init /\ [][NextLog]_vars

-----------------------------------------------------------------------------
(* SpecClient: one page's requests through the API service *)

\* What the server sends back to a request of `api` (code 0: nothing).
ApiResponses ==
    [code : {200, 0}, error : {"none"}]
        \cup [code : {401}, error : {"TOKEN_EXPIRED", "INVALID_TOKEN", "USER_NOT_FOUND"}]
        \cup [code : {403}, error : {"ACCESS_DENIED"}]

\* What POST /auth/refresh sends back: 200 with or without a token, 401
\* INVALID_REFRESH_TOKEN, or nothing within refreshApi's timeout.
RefreshResponses ==
    [code : {200}, token : BOOLEAN] \cup [code : {401, 0}, token : {FALSE}]

\* The page calls api.get / api.post / ...
Request(q) ==
    /\ client.requests[q].phase = "new"
    /\ client' = [client EXCEPT !.requests[q].phase = "sent"]
    /\ UNCHANGED <<env, users, reports, used, now, inflight, resp>>

\* The server's answer reaches the interceptor.
Response(q, r) ==
    /\ client.requests[q].phase = "sent"
    /\ client' = interceptor(client, q, r)
    /\ resp' = [op |-> "api", q |-> q, code |-> r.code, error |-> r.error]
    /\ UNCHANGED <<env, users, reports, used, now, inflight>>

\* refreshApi.post settles and the suspended interceptor goes on.
RefreshResponse(q, r) ==
    /\ client.requests[q].phase = "refreshing"
    /\ client' = refreshDone(client, q, r)
    /\ resp' = [op |-> "refresh", q |-> q, code |-> r.code, token |-> r.token]
    /\ UNCHANGED <<env, users, reports, used, now, inflight>>

\* The page loads with or without a refresh-token cookie.
InitClient ==
    /\ FixedEnv
    /\ users = BaseUsers
    /\ reports = [r \in ReportIds |-> NoReport]
    /\ used = {}
    /\ now = 0
    /\ inflight = [s \in Slots |-> [op |-> "idle"]]
    /\ resp = NoResp
    /\ \E cookie \in BOOLEAN : client = [PageLoad EXCEPT !.refreshToken = cookie]

NextClient ==
    \/ \E q \in Requests : Request(q)
    \/ \E q \in Requests, r \in ApiResponses : Response(q, r)
    \/ \E q \in Requests, r \in RefreshResponses : RefreshResponse(q, r)

SpecClient == InitClient /\ [][NextClient]_vars

\* refreshApi has a timeout of 10 s, so its post always settles; every
\* request of `api` settles within its own 30 s.
SpecClientFair ==
    /\ SpecClient
    /\ WF_vars(\E q \in Requests, r \in RefreshResponses : RefreshResponse(q, r))

-----------------------------------------------------------------------------
(* Properties *)

Members(report) == {report.upvotes[i] : i \in 1..Len(report.upvotes)}

HasResolvedEntry(report) ==
    \E i \in 1..Len(report.statusHistory) : report.statusHistory[i].status = "resolved"

\* The last request was a write of this operation that succeeded.
Succeeded(op, code) == resp.op = op /\ resp.code = code

\* C1: after a successful POST /reports the stored report is 'pending' and its
\* statusHistory holds exactly one entry, whose status is 'pending'.
C1_CreateSeedsHistory ==
    Succeeded("create", 201) =>
        LET r == reports[resp.rid] IN
        /\ r.status = "pending"
        /\ Len(r.statusHistory) = 1
        /\ r.statusHistory[1].status = "pending"

\* C2: every successful PUT /admin/reports/:id/status makes the report's
\* statusHistory exactly one entry longer.
C2_StatusUpdateAppendsOne ==
    [][(resp'.op = "status" /\ resp'.code = 200 /\ now' = now + 1) =>
          Len(reports'[resp'.rid].statusHistory)
              = Len(reports[resp'.rid].statusHistory) + 1]_vars

\* C3: once resolvedAt has a value, no later operation on the report changes it.
C3_ResolvedAtStampedOnce ==
    [][\A r \in ReportIds :
          (reports[r].exists /\ reports'[r].exists /\ reports[r].resolvedAt # 0) =>
              reports'[r].resolvedAt = reports[r].resolvedAt]_vars

\* C4 as claimed: resolvedAt is set if and only if the current status is
\* 'resolved'.
C4_ResolvedAtIffResolved ==
    \A r \in ReportIds :
        reports[r].exists =>
            (reports[r].resolvedAt # 0 <=> reports[r].status = "resolved")

\* C4 as amended: a report whose status is 'resolved' has resolvedAt set, and
\* resolvedAt is set only on a report whose statusHistory holds a 'resolved'
\* entry; leaving 'resolved' does not clear it.
C4_ResolvedAtFollowsResolution ==
    \A r \in ReportIds :
        reports[r].exists =>
            /\ reports[r].status = "resolved" => reports[r].resolvedAt # 0
            /\ reports[r].resolvedAt # 0 => HasResolvedEntry(reports[r])

\* C4 witness: a report that was resolved and has since left 'resolved'.
C4_Witness ==
    \E r \in ReportIds :
        /\ reports[r].exists
        /\ reports[r].resolvedAt # 0
        /\ reports[r].status # "resolved"
        /\ Succeeded("status", 200)

\* C5: a report's upvotes never hold two entries of the same user.
C5_OneUpvotePerUser ==
    \A r \in ReportIds :
        reports[r].exists =>
            \A i, j \in 1..Len(reports[r].upvotes) :
                reports[r].upvotes[i] = reports[r].upvotes[j] => i = j

\* C6: a toggle by U flips U's membership, leaves the other votes as they
\* were and returns the resulting count; two consecutive toggles by U restore
\* the original count and membership.
C6_ToggleIsAnInvolution ==
    \A t \in VoterHeaders, r \in ReportIds :
        LET a == authenticateToken(t)
            o == toggleUpvote(t, r)
            before == reports[r]
        IN (a.ok /\ before.exists) =>
            LET once == o.reports[r]
                twice == save(once, once, toggleDoc(once, a.user), now + 2)
            IN /\ hasUserUpvoted(once, a.user) = ~hasUserUpvoted(before, a.user)
               /\ SelectSeq(once.upvotes, LAMBDA v : v # a.user)
                     = SelectSeq(before.upvotes, LAMBDA v : v # a.user)
               /\ o.resp.upvoteCount = Len(once.upvotes)
               /\ Len(twice.upvotes) = Len(before.upvotes)
               /\ Members(twice) = Members(before)

\* C7: PUT and DELETE /reports/:id change an existing report only for its
\* owner or an admin; any other authenticated actor gets 403 ACCESS_DENIED,
\* and for every actor who may not manage it the stored report is unchanged.
C7_OnlyOwnerOrAdminManages ==
    \A t \in Headers, r \in ReportIds, b \in PutBodies :
        LET a == authenticateToken(t)
            mayManage == a.ok /\ (a.user = reports[r].reportedBy
                                    \/ users[a.user].role = "admin")
            p == putReport(t, r, b)
            d == deleteReport(t, r)
        IN reports[r].exists =>
            /\ ~mayManage => p.reports = reports /\ d.reports = reports
            /\ (a.ok /\ ~mayManage) =>
                  /\ p.resp.code = 403 /\ p.resp.error = "ACCESS_DENIED"
                  /\ d.resp.code = 403 /\ d.resp.error = "ACCESS_DENIED"
            /\ mayManage =>
                  /\ p.resp.code = 200 /\ p.reports[r] = applyUpdate(reports[r], b)
                  /\ d.resp.code = 200 /\ ~d.reports[r].exists

\* C7 witness: a stranger's PUT or DELETE of an existing report was denied.
C7_Witness ==
    /\ resp.op \in {"put", "delete"}
    /\ resp.error = "ACCESS_DENIED"
    /\ \E r \in ReportIds : reports[r].exists /\ ~reports[r].isPublic

\* The user a token speaks for: none when the token is missing, signed by
\* another key, past its expiry, or names a removed or deactivated user.
Caller(t) ==
    IF /\ t # NoToken
       /\ t.key = env.JWT_SECRET
       /\ ~t.expired
       /\ userExists(t.userId)
       /\ users[t.userId].isActive
    THEN t.userId
    ELSE NoUser

\* C8: GET /reports/:id returns an existing report exactly when it is public
\* or the caller is its owner or an admin; a caller without a valid token
\* never gets a private report.
C8_ViewIffPublicOrManager ==
    \A t \in Headers, r \in ReportIds :
        LET c == Caller(t)
            o == getReport(t, r)
            mayView == \/ reports[r].isPublic
                       \/ c # NoUser /\ (c = reports[r].reportedBy
                                           \/ users[c].role = "admin")
        IN reports[r].exists =>
            /\ mayView <=> (o.resp.code = 200 /\ o.resp.report = reports[r])
            /\ ~mayView => "report" \notin DOMAIN o.resp
            /\ o.reports = reports

\* C8 witness: a private report was served to its owner.
C8_Witness ==
    /\ Succeeded("get", 200)
    /\ ~resp.report.isPublic
    /\ resp.user = resp.report.reportedBy

\* C9: no request whose Authorization header carries a token issued by
\* generateRefreshToken passes authenticateToken.
C9_RefreshTokenIsNoAccessToken ==
    ~(Succeeded("profile", 200) /\ resp.presented.type = "refresh")

\* C10: POST /auth/refresh answers 200 with a new access token exactly when
\* the presented token verifies under the refresh secret, is of type
\* 'refresh' and names an existing active user; every other input gets 401
\* and no token; no answer carries a refresh token.
C10_RefreshOnlyForRefreshTokens ==
    \A t \in AuthTokens :
        LET o == refresh(t)
            good == /\ t # NoToken
                    /\ t.type = "refresh"
                    /\ t.key = RefreshSecret
                    /\ ~t.expired
                    /\ userExists(t.userId)
                    /\ users[t.userId].isActive
        IN /\ good => /\ o.resp.code = 200
                      /\ o.resp.token = generateToken(t.userId)
                      /\ o.resp.token.type # "refresh"
           /\ ~good => o.resp.code = 401 /\ "token" \notin DOMAIN o.resp
           /\ "refreshToken" \notin DOMAIN o.resp

\* C10 witness: a refresh answered with a new access token.
C10_Witness ==
    /\ Succeeded("refresh", 200)
    /\ resp.presented.type = "refresh"
    /\ resp.token.type = "none"

\* C11: a login with a wrong password for a registered address gets the same
\* status and error code as a login for an address nobody registered, whatever
\* the state of the account.
C11_LoginHidesAccounts ==
    (/\ resp.op = "login"
     /\ resp.code # 400
     /\ findOneByEmail(normalizeEmail(resp.presented.email)) # NoUser
     /\ ~comparePassword(findOneByEmail(normalizeEmail(resp.presented.email)),
                         resp.presented.password))
    => LET unknown == login(UnknownEmail, resp.presented.password).resp
       IN resp.code = unknown.code /\ resp.error = unknown.error

GateTokens == AuthTokens \cup {Forged(generateToken(u)) : u \in AuthUsers}

\* C12: a token passes authenticateToken exactly when it is signed with
\* JWT_SECRET, not past its expiry and names an existing active user; the
\* handler behind the gate then acts as that user, every other request is
\* answered 401 and changes nothing; the token a successful login returns
\* opens GET /auth/profile for the user who logged in.
C12_GateFailsClosed ==
    /\ \A t \in GateTokens :
          LET a == authenticateToken(t)
              p == getProfile(t)
              c == createReport(t, CHOOSE b \in VoteBodies : TRUE, "r1")
          IN /\ a.ok <=> Caller(t) # NoUser
             /\ a.ok => /\ a.user = t.userId
                         /\ p.resp.code = 200 /\ p.resp.user = t.userId
                         /\ c.resp.code = 201
                         /\ c.reports["r1"].reportedBy = t.userId
             /\ ~a.ok => /\ a.code = 401 /\ a.user = NoUser
                          /\ p.resp.code = 401 /\ "user" \notin DOMAIN p.resp
                          /\ c.resp.code = 401 /\ c.reports = reports
    /\ \A e \in LoginEmails, pw \in LoginPasswords :
          LET l == login(e, pw).resp IN
          l.code = 200 =>
              LET p == getProfile(l.token).resp
              IN p.code = 200 /\ p.user = l.user /\ users[l.user].email = normalizeEmail(e)

\* C12 witness: a user who logged in reads the profile with the access token.
C12_Witness ==
    /\ Succeeded("profile", 200)
    /\ resp.presented = generateToken(resp.user)
    /\ users[resp.user].lastLogin # 0

\* C13: a caller who is not an authenticated active admin is refused by
\* every operation under /admin (401 without a valid token, 403 with the
\* token of a non-admin), gets no data and changes no report; an admin is
\* never refused by the gate.
C13_AdminOnly ==
    \A t \in Headers :
        LET isAdmin == Caller(t) # NoUser /\ users[Caller(t)].role = "admin"
            outcomes ==
                {updateStatus(t, r, st, FALSE, 0) :
                     r \in TargetIds({"r1"}), st \in {"resolved", "closed"}}
                \cup {assignReport(t, r, u) : r \in TargetIds({"r1"}), u \in Assignees}
                \cup {addComment(t, r, v) : r \in TargetIds({"r1"}), v \in BOOLEAN}
                \cup {adminListReports(t, q, <<>>) : q \in GateQueries}
                \cup {getDashboard(t)}
                \cup {getUsers(t, role) : role \in {"absent", "admin", "root"}}
        IN \A o \in outcomes :
              /\ ~isAdmin =>
                    /\ o.resp.code = IF Caller(t) = NoUser THEN 401 ELSE 403
                    /\ DOMAIN o.resp = {"op", "code", "error"}
                    /\ o.reports = reports /\ ~o.write
              /\ isAdmin => o.resp.code \notin {401, 403}

\* C13 witness: an operation under /admin refused a citizen while a report
\* is stored.
C13_Witness ==
    /\ resp.op \in {"status", "assign", "comment", "adminList", "dashboard", "users"}
    /\ resp.code = 403
    /\ reports["r1"].exists

\* Query strings with every filter set and unset, a priority the enum does
\* not hold and a priority object.
AllQueries ==
    [page : 1..2, limit : {1}, status : {"absent", "pending"},
     category : {"absent"}, priority : {"absent", "high", "$ne:high", "top"},
     city : {<<>>, North}, search : {<<>>, North}, assignedTo : {"absent"},
     dateFrom : {0}, dateTo : {0},
     sortBy : {"createdAt", "priority"}, sortOrder : {"desc"}]

\* C14: whatever the filters, the search term and the sort, every report the
\* public listing returns to a caller who is not an admin has isPublic = true.
C14_PublicListingIsPublic ==
    \A t \in ListHeaders \cup {generateToken("d1")}, q \in AllQueries :
        (Caller(t) = NoUser \/ users[Caller(t)].role # "admin") =>
            \A order \in find(publicQuery(q), q.sortBy, q.sortOrder) :
                LET o == listReports(t, q, order) IN
                /\ o.resp.code = 200
                /\ \A i \in DOMAIN o.resp.items : reports[o.resp.items[i]].isPublic
                /\ o.reports = reports

\* C14 witness: a listing answered to a caller who is not an admin returned a
\* report while a private report is stored.
C14_Witness ==
    /\ Succeeded("list", 200)
    /\ resp.user = NoUser \/ users[resp.user].role # "admin"
    /\ Len(resp.items) > 0
    /\ \E r \in ReportIds : reports[r].exists /\ ~reports[r].isPublic

Range(seq) == {seq[i] : i \in DOMAIN seq}

\* The documents the query of the last listing selects.
Listed ==
    IF resp.op = "list" THEN publicQuery(resp.query)
    ELSE adminQuery(resp.user, resp.query)

\* C15: with the collection unchanged, page p > 1 of a listing and every
\* answer to the request for page p-1 with the same filters, sort and page
\* size are disjoint, and page p-1 followed by page p is the slice of one
\* sorted unpaginated result at the same boundaries.
C15_PagesPartitionTheList ==
    (resp.op \in {"list", "adminList"} /\ resp.code = 200 /\ resp.query.page > 1) =>
        LET q == resp.query
            orders == find(Listed, q.sortBy, q.sortOrder)
        IN \A prev \in orders :
              LET before == skipLimit(prev, q.page - 1, q.limit) IN
              /\ Range(before) \cap Range(resp.items) = {}
              /\ \E whole \in orders :
                    before \o resp.items
                        = SubSeq(whole, (q.page - 2) * q.limit + 1,
                                 Min(q.page * q.limit, Len(whole)))

\* C16: the assignedTo of every stored report is unset or names an existing
\* admin; an assign request that names a user who does not exist or is not
\* an admin is refused and leaves the stored reports as they were, and when
\* it is a well-formed request of an admin for an existing report the
\* refusal is 400 INVALID_ADMIN_USER.
C16_AssigneeIsAnAdmin ==
    /\ \A r \in ReportIds :
          (reports[r].exists /\ reports[r].assignedTo # NoUser) =>
              /\ userExists(reports[r].assignedTo)
              /\ users[reports[r].assignedTo].role = "admin"
    /\ \A t \in ActorHeaders, r \in TargetIds({"r1"}), u \in Assignees :
          LET o == assignReport(t, r, u) IN
          (~userExists(u) \/ users[u].role # "admin") =>
              /\ o.resp.code # 200
              /\ o.reports = reports
              /\ (adminGate(t).ok /\ u # MalformedId /\ findById(r).exists) =>
                    o.resp.code = 400 /\ o.resp.error = "INVALID_ADMIN_USER"

\* C16 witness: a report assigned to the admin a1, and a later assignment to
\* somebody who is not an admin refused.
C16_Witness ==
    /\ resp.op = "assign" /\ resp.error = "INVALID_ADMIN_USER"
    /\ reports["r1"].exists /\ reports["r1"].assignedTo = "a1"

\* C17: a successful assign makes adminComments one entry longer; it turns a
\* 'pending' report 'in_progress' and appends to its statusHistory the entry
\* ('in_progress', the assigning admin); it leaves the status and the
\* statusHistory of any other report as they were.
C17_AssignEffects ==
    [][(resp'.op = "assign" /\ resp'.code = 200 /\ now' = now + 1) =>
          LET old == reports[resp'.rid]
              new == reports'[resp'.rid]
          IN /\ Len(new.adminComments) = Len(old.adminComments) + 1
             /\ new.assignedTo \in UserIds
             /\ IF old.status = "pending"
                THEN /\ new.status = "in_progress"
                     /\ new.statusHistory =
                           Append(old.statusHistory,
                                  [status |-> "in_progress", changedBy |-> resp'.user])
                ELSE /\ new.status = old.status
                     /\ new.statusHistory = old.statusHistory]_vars

FrameFields ==
    {"status", "statusHistory", "adminComments", "upvotes", "resolvedAt",
     "assignedTo", "reportedBy"}

\* C18: every PUT /reports/:id, whoever calls it and whatever its body,
\* leaves the status, statusHistory, adminComments, upvotes, resolvedAt,
\* assignedTo and reportedBy of every report as they were; and no step of
\* any operation changes the reportedBy of a stored report.
C18_PutKeepsLifecycleFields ==
    [][/\ resp'.op = "put" =>
             \A x \in ReportIds :
                 reports[x].exists =>
                     /\ reports'[x].exists
                     /\ \A f \in FrameFields : reports'[x][f] = reports[x][f]
       /\ \A x \in ReportIds :
             (reports[x].exists /\ reports'[x].exists) =>
                 reports'[x].reportedBy = reports[x].reportedBy]_vars

\* C18 witness: the owner's PUT of a body that names a status and another
\* owner succeeded on a report that is in progress and assigned.
C18_Witness ==
    /\ Succeeded("put", 200)
    /\ resp.body.status = "resolved" /\ resp.body.reportedBy = "u2"
    /\ reports["r1"].status = "in_progress"
    /\ reports["r1"].assignedTo = "a1"
    /\ reports["r1"].statusHistory # <<>>
    /\ reports["r1"].reportedBy = "u1"

\* C19: GET /reports/:id of an existing private report by a caller who is
\* neither its owner nor an admin gets the answer an id that names no
\* report gets.
C19_PrivateLooksMissing ==
    (resp.op = "get" /\ resp.error = "ACCESS_DENIED") =>
        LET missing == getReport(NoToken, MissingId).resp
        IN resp.code = missing.code /\ resp.error = missing.error

\* C20: every stored report has a title of 5 to 100 characters and a
\* description of 20 to 1000 characters.
C20_FieldBounds ==
    \A r \in ReportIds :
        reports[r].exists =>
            /\ Length(reports[r].title) >= 5 /\ Length(reports[r].title) <= 100
            /\ Length(reports[r].description) >= 20
            /\ Length(reports[r].description) <= 1000

\* The users that have this normalised address.
UsersOf(us, email) == {u \in UserIds : us[u].exists /\ us[u].email = email}

\* A registration was answered in this step.
RegisterAnswered ==
    /\ resp'.op = "register"
    /\ \/ resp' # resp
       \/ \E s \in Slots : inflight[s].op = "register" /\ inflight'[s] = Idle

\* C21: a valid registration for an address a stored user has is answered
\* 409 USER_EXISTS and changes no user; no two stored users have the same
\* address, however the registrations interleave.
C21_OneUserPerEmail ==
    [][/\ \A u, v \in UserIds :
             (users'[u].exists /\ users'[v].exists /\ users'[u].email = users'[v].email)
                 => u = v
       /\ RegisterAnswered =>
             LET taken == UsersOf(users, normalizeEmail(resp'.presented.email)) # {}
             IN /\ (taken /\ resp'.code # 400) =>
                      resp'.code = 409 /\ resp'.error = "USER_EXISTS"
                /\ resp'.code # 201 => users' = users
                /\ resp'.code = 201 =>
                      /\ ~taken
                      /\ \A u \in UserIds : users[u].exists => users'[u] = users[u]]_vars

\* C21 witness: of two registrations for one address that were both past
\* findOne, the second to save was answered 409.
C21_Witness ==
    /\ resp.op = "register" /\ resp.code = 409
    /\ resp.presented.email \in {"u1@x.io", "U1@X.io"}
    /\ Cardinality(UsersOf(users, "u1@x.io")) = 1
    /\ \E u \in NewUserIds : users[u].exists /\ users[u].lastLogin = now - 1

\* The requests suspended at `await refreshApi.post`: the refreshes in flight.
Refreshing(c) == {q \in Requests : c.requests[q].phase = "refreshing"}

\* This step delivers to request q an answer of the kind that asks for a refresh.
NeedsRefresh(q) ==
    /\ client.requests[q].phase = "sent"
    /\ client'.requests[q].phase # "sent" \/ client'.requests[q].replays # client.requests[q].replays
    /\ resp'.op = "api" /\ resp'.q = q
    /\ resp'.code = 401 /\ resp'.error \in RefreshErrors

RefreshEnds(q) ==
    /\ client.requests[q].phase = "refreshing"
    /\ client'.requests[q].phase # "refreshing"

\* C23: when the refresh in flight completes every queued request is settled:
\* sent again if the refresh gave a token, rejected otherwise, and then the
\* stored auth data is cleared too; afterwards isRefreshing is false and the
\* queue is empty.  Whenever isRefreshing is false failedQueue is empty, and
\* a queued request does not stay queued.
C23_QueueSettled ==
    /\ [](~client.isRefreshing => client.failedQueue = <<>>)
    /\ [][\A q \in Requests : RefreshEnds(q) =>
            LET ok == resp'.code = 200 /\ resp'.token IN
            /\ \A w \in Queued(client) :
                  IF ok
                  THEN /\ client'.requests[w].phase = "sent"
                       /\ client'.requests[w].replays = client.requests[w].replays + 1
                  ELSE client'.requests[w].phase = "rejected"
            /\ ~ok => ~client'.authorization /\ ~client'.refreshToken
            /\ ~client'.isRefreshing
            /\ client'.failedQueue = <<>>]_vars
    /\ \A w \in Requests :
          (client.requests[w].phase = "queued") ~> (client.requests[w].phase # "queued")

\* Two requests waited in the queue of one refresh and were sent again.
C23_Witness ==
    /\ resp.op = "refresh" /\ resp.code = 200 /\ resp.token
    /\ ~client.isRefreshing
    /\ Cardinality({q \in Requests : /\ ~client.requests[q].retry
                                     /\ client.requests[q].replays = 1
                                     /\ client.requests[q].phase = "sent"}) = 2

\* C24: the interceptor sends every request again at most once, whether the
\* request started the refresh or waited in the queue, and a request that was
\* sent again and is answered 401 TOKEN_EXPIRED or INVALID_TOKEN once more
\* starts no refresh and is not queued.
C24_NoRefreshLoop ==
    /\ [](\A q \in Requests : client.requests[q].replays <= 1)
    /\ [][\A q \in Requests :
            (NeedsRefresh(q) /\ client.requests[q].replays >= 1) =>
                /\ client'.requests[q].phase = "rejected"
                /\ Refreshing(client') = Refreshing(client)
                /\ client'.failedQueue = client.failedQueue]_vars

\* The admin has an area and the report's city does not contain it, whatever
\* the case of the letters.
Foreign(admin, report) ==
    /\ users[admin].adminArea # NoArea
    /\ \A i \in 0..(Len(report.city) - Len(users[admin].adminArea)) :
          toLowerCase(SubSeq(report.city, i + 1, i + Len(users[admin].adminArea)))
              # toLowerCase(users[admin].adminArea)

\* C25: a status update by an admin who has an area, on a report whose city
\* does not contain that area (case-insensitively), is answered 403
\* AREA_ACCESS_DENIED and leaves the report's status, statusHistory,
\* adminComments, estimatedResolutionTime and resolvedAt as they were.
C25_StatusChecksArea ==
    /\ [](\A r \in {"r1"}, st \in Statuses, c \in BOOLEAN, e \in 0..1 :
             (reports[r].exists /\ Foreign("a1", reports[r])) =>
                 LET o == updateStatus(generateToken("a1"), r, st, c, e) IN
                 /\ o.resp.code = 403 /\ o.resp.error = "AREA_ACCESS_DENIED"
                 /\ o.reports[r] = reports[r])
    /\ [][resp'.error = "AREA_ACCESS_DENIED" => reports' = reports]_vars

\* A status update on a report that has a history of two entries was refused
\* for the area.
C25_Witness ==
    /\ resp.op = "status" /\ resp.code = 403 /\ resp.error = "AREA_ACCESS_DENIED"
    /\ \E r \in ReportIds :
          /\ reports[r].exists
          /\ Foreign("a1", reports[r])
          /\ Len(reports[r].statusHistory) = 2

\* The reports that satisfy every filter the query supplies and, when the
\* admin has an area, lie in it.
Selected(admin, q) ==
    {r \in ReportIds :
        /\ reports[r].exists
        /\ q.status # "absent" => reports[r].status = q.status
        /\ q.category # "absent" => reports[r].category = q.category
        /\ q.priority # "absent" => reports[r].priority = q.priority
        /\ q.city # <<>> => regexTest(q.city, reports[r].city)
        /\ q.assignedTo # "absent" => reports[r].assignedTo = q.assignedTo
        /\ q.dateFrom # 0 => reports[r].createdAt >= q.dateFrom
        /\ q.dateTo # 0 => reports[r].createdAt <= q.dateTo
        /\ q.search # <<>> => searchMatches(reports[r], q.search)
        /\ users[admin].adminArea # NoArea =>
              regexTest(users[admin].adminArea, reports[r].city)}

\* C26: GET /admin/reports returns exactly the reports that satisfy all the
\* supplied filters (status, category, priority, city, assignee, date range,
\* search) and whose city matches the admin's area when the admin has one; a
\* supplied city filter restricts the result of an area-scoped admin too.
C26_AdminListingFilters ==
    (resp.op = "adminList" /\ resp.code = 200 /\ resp.query.page = 1) =>
        /\ resp.pagination.totalReports =
              Cardinality(Selected(resp.user, resp.query))
        /\ Cardinality(Selected(resp.user, resp.query)) <= resp.query.limit =>
              Range(resp.items) = Selected(resp.user, resp.query)

\* C29: an admin who has an area never changes the status of a report whose
\* city does not match it, by a status update, an assignment or a comment.
C29_AreaConfinesStatus ==
    [][\A r \in ReportIds :
          (/\ resp'.op \in {"status", "assign", "comment"}
           /\ reports[r].exists /\ reports'[r].exists
           /\ Foreign("a1", reports[r]))
              => reports'[r].status = reports[r].status]_vars

\* C27: statusHistory and adminComments only grow at the end: whatever is done
\* to an existing report short of deleting it (content update, upvote toggle,
\* status update, assignment, comment), the two lists before the operation are
\* prefixes of the lists after it.
C27_LogsAppendOnly ==
    [][\A r \in ReportIds :
          (reports[r].exists /\ reports'[r].exists) =>
              /\ IsPrefix(reports[r].statusHistory, reports'[r].statusHistory)
              /\ IsPrefix(reports[r].adminComments, reports'[r].adminComments)]_vars

\* Two interleaved admin requests have both written to the report, which then
\* was edited by its owner.
C27_Witness ==
    /\ resp.op = "put" /\ resp.code = 200
    /\ Len(reports["r1"].statusHistory) >= 3
    /\ Len(reports["r1"].adminComments) >= 2

\* C28: in every reachable state, also when status updates and assignments of
\* several admin sessions on one report interleave, a report whose
\* statusHistory is not empty has the status of its last entry.
C28_HistoryEndsAtStatus ==
    \A r \in ReportIds :
        (reports[r].exists /\ reports[r].statusHistory # <<>>) =>
            reports[r].statusHistory[Len(reports[r].statusHistory)].status
                = reports[r].status

\* The user may view the report: it is public, or theirs, or they are an admin.
MayView(report, user) ==
    \/ report.isPublic
    \/ user = report.reportedBy
    \/ users[user].role = "admin"

\* C30: a user changes a report's upvotes only if they may view it: the
\* toggle of a user who is neither owner nor admin on a private report
\* leaves upvotes as they were and is not answered with an upvote count.
C30_UpvoteNeedsView ==
    [][\A r \in ReportIds :
          (/\ resp'.op = "upvote" /\ resp'.code = 200 /\ resp'.rid = r
           /\ reports[r].exists
           /\ ~MayView(reports[r], resp'.user))
              => /\ reports'[r].upvotes = reports[r].upvotes
                 /\ "upvoteCount" \notin DOMAIN resp']_vars

====
